---- MODULE Spec2Model ----
(***************************************************************************)
(* A model of the SignalK installer back end (packages/installer/src-tauri) *)
(*                                                                         *)
(*   installer.rs  run_installation, setup_service, copy_dir_recursive,    *)
(*                 check_existing_install, emit_progress                   *)
(*   updater.rs    check_for_updates, install_update                       *)
(*   platform.rs   get_info and the three descriptor templates             *)
(*                                                                         *)
(* The filesystem is a record of the well-known paths the code touches.    *)
(* A file is <<>> when absent, <<d>> when it holds the document d, and     *)
(* Partial when a failed write left it truncated.  Every fallible call of  *)
(* the code (each `?`) is one step whose outcome the environment chooses.  *)
(*                                                                         *)
(* Specifications:                                                         *)
(*   Spec     installation runs invoked one after the other (the caller    *)
(*            serialises install requests)                                 *)
(*   SpecUpd  the update manager: check_for_updates and install_update     *)
(***************************************************************************)
EXTENDS Integers, Sequences, FiniteSets, TLC

VARIABLES
    platform,      \* target_os the binary was built for
    homeKnown,     \* whether dirs::home_dir() / dirs::config_dir() resolve
    resources,     \* what the bundle's resource directory holds
    fs,            \* the filesystem paths the installer touches
    pc,            \* per invocation: position inside run_installation
    config,        \* per invocation: the InstallerConfig argument
    log,           \* per invocation: progress events emitted and filesystem writes done
    vessel_uuid,   \* per invocation: the local vessel_uuid
    pathAbsent,    \* per invocation: outcome of the last !path.exists() test
    result,        \* per invocation: the returned Result<(), String>
    failedPhase,   \* per invocation: phase whose step returned the error
    fsAtStart,     \* per invocation: the filesystem as the invocation found it
    started,       \* number of invocations of run_installation so far
    uuidCount,     \* number of Uuid::new_v4() values drawn so far
    det,           \* check_existing_install: the files it looks at and what it returned
    observer,      \* whether the front end still receives the events app.emit sends
    delivered,     \* per invocation: the progress events the front end received
    cp,            \* copy_dir_recursive on its own: source, destination before, and outcome
    okRuns,        \* number of invocations of run_installation that have returned Ok(())
    overlap,       \* an invocation of run_installation started while another was running
    upd            \* state of the update manager (check_for_updates, install_update)

vars == <<platform, homeKnown, resources, fs, pc, config, log, vessel_uuid,
          pathAbsent, result, failedPhase, fsAtStart, started, uuidCount,
          det, observer, delivered, cp, okRuns, overlap, upd>>

installerVars == <<platform, homeKnown, resources, fs, pc, config, log, vessel_uuid,
                   pathAbsent, result, failedPhase, fsAtStart, started, uuidCount,
                   det, observer, delivered, cp, okRuns, overlap>>

(***************************************************************************)
(* Bounds                                                                  *)
(***************************************************************************)
MaxRuns == 2

\* invocations explored where the environment is not the reference one
MaxRunsElsewhere == 1

\* fallible calls of one copy_dir_recursive that may succeed before one fails;
\* copying BundledServer into an empty directory makes nine
MaxCopyFuel == 9

MaxChunk == 2

MaxBytes == 3

\* fallible calls a single copy_dir_recursive may make before one fails
MaxTreeFuel == 17

Runs == {"r1", "r2"}

\* serialised invocations all use the first slot
FirstRun == "r1"

Platforms == {"linux", "macos", "windows", "other"}

(***************************************************************************)
(* Data                                                                    *)
(***************************************************************************)
Mode755 == 493

Phases == <<"extract", "config", "service", "verify">>

PhaseIdx(p) == CHOOSE i \in 1..4 : Phases[i] = p

NoMessage == "None"

Ev(step, status, message) ==
    [kind |-> "event", step |-> step, status |-> status, message |-> message, target |-> "-"]

Wr(step, target) ==
    [kind |-> "write", step |-> step, status |-> "-", message |-> "-", target |-> target]

\* emit_progress: the event is handed to app.emit and the outcome is dropped
emit_progress(l, step, status, message) == Append(l, Ev(step, status, message))

InstallerConfig(name, mmsi, port, ssl, sslport, auto) ==
    [vessel_name |-> name, mmsi |-> mmsi, http_port |-> port, enable_ssl |-> ssl,
     ssl_port |-> sslport, admin_user |-> "admin", admin_password |-> "secret",
     enable_auto_start |-> auto, serial_ports |-> <<>>]

Configs ==
    { InstallerConfig("Test", "", 3000, FALSE, 3443, FALSE),
      InstallerConfig("Test", "", 3000, FALSE, 3443, TRUE),
      InstallerConfig("Boat", "123456789", 8080, TRUE, 3443, TRUE),
      InstallerConfig("Boat", "123456789", 8080, TRUE, 3443, FALSE) }

NoConfig == InstallerConfig("", "", 0, FALSE, 0, FALSE)

Absent == <<>>

File(d) == <<d>>

Partial == <<"truncated", "truncated">>

Exists(f) == f # Absent

\* a failed fs::write / fs::copy either never opened the target or left it truncated
FailedWrite(old) == {old, Partial}

Ok == [ok |-> TRUE, err |-> ""]

Err(msg) == [ok |-> FALSE, err |-> msg]

NoResult == [ok |-> FALSE, err |-> "pending"]

(***************************************************************************)
(* Paths                                                                   *)
(***************************************************************************)
get_config_dir == IF homeKnown THEN <<"~", ".signalk">> ELSE <<".signalk">>

get_install_dir ==
    CASE platform = "linux"   -> IF homeKnown THEN <<"~", ".local", "signalk">> ELSE <<"signalk">>
      [] platform = "macos"   -> IF homeKnown THEN <<"~", "Library", "SignalK">> ELSE <<"SignalK">>
      [] platform = "windows" -> IF homeKnown THEN <<"~", "AppData", "Local", "SignalK">>
                                              ELSE <<"SignalK">>
      [] OTHER                -> <<"signalk">>

node_binary == IF platform = "windows" THEN "node.exe" ELSE "node"

IsUnix == platform # "windows"

(***************************************************************************)
(* The bundled resources and copy_dir_recursive                            *)
(***************************************************************************)
BundledNode == [content |-> "node-binary", mode |-> 420]

BundledServer ==
    [dirs  |-> {<<>>, <<"bin">>},
     files |-> (<<"bin", "signalk-server">> :> "entry") @@ (<<"package.json">> :> "manifest")]

NoTree == [dirs |-> {}, files |-> <<>>]

Children(tree, p) ==
    {q \in tree.dirs \cup DOMAIN tree.files :
        Len(q) = Len(p) + 1 /\ SubSeq(q, 1, Len(p)) = p}

\* source trees of nested directories and regular files: a directory "a" with a
\* directory "b" inside, an empty directory "e", and a file "f" at each level
TreeDirs == {<<"a">>, <<"a", "b">>, <<"e">>}

TreeFiles == {<<"f">>, <<"a", "f">>, <<"a", "b", "f">>}

Contents == {"x", "y"}

SourceTrees ==
    {[dirs |-> {<<>>} \cup D, files |-> F] :
        <<D, F>> \in {t \in (SUBSET TreeDirs) \X
                              UNION {[S -> Contents] : S \in SUBSET TreeFiles} :
                         /\ \A d \in t[1] : Len(d) > 1 => SubSeq(d, 1, Len(d) - 1) \in t[1]
                         /\ \A p \in DOMAIN t[2] :
                               SubSeq(p, 1, Len(p) - 1) \in {<<>>} \cup t[1]}}

\* what the destination holds before the copy: nothing, an empty directory, an older
\* copy of "f", or entries the source does not have
DestTrees ==
    {NoTree,
     [dirs |-> {<<>>}, files |-> <<>>],
     [dirs |-> {<<>>}, files |-> (<<"f">> :> "old")],
     [dirs |-> {<<>>, <<"keep">>}, files |-> (<<"keep", "k">> :> "old")]}

CopyState(tree, fuel) == [tree |-> tree, fuel |-> fuel, ok |-> TRUE, ops |-> <<>>]

NoCopy ==
    [src |-> NoTree, dst |-> NoTree, fuel |-> 0, state |-> "idle",
     out |-> CopyState(NoTree, 0)]

\* one fallible call: it fails when the fuel is used up
Tick(st) == IF st.fuel = 0 THEN [st EXCEPT !.ok = FALSE] ELSE [st EXCEPT !.fuel = @ - 1]

Parent(p) == SubSeq(p, 1, Len(p) - 1)

\* fs::create_dir_all: the directory and the ancestors it lacks
CreateDirAll(st, p) ==
    LET t == Tick(st)
    IN  IF t.ok THEN [t EXCEPT !.tree.dirs = @ \cup {SubSeq(p, 1, n) : n \in 0..Len(p)},
                               !.ops = Append(@, <<"mkdir", p>>)]
                ELSE t

\* fs::copy: it fails when the fuel is used up or the target's directory does not exist
FsCopy(src, p, st) ==
    LET t == Tick(st)
    IN  IF t.ok /\ Parent(p) \in t.tree.dirs
           THEN [t EXCEPT !.tree.files = (p :> src.files[p]) @@ @,
                          !.ops = Append(@, <<"copy", p>>)]
           ELSE [t EXCEPT !.ok = FALSE]

RECURSIVE copy_dir_recursive(_, _, _), CopyEntries(_, _, _)

\* variant of copy_dir_recursive: the destination directory is not created
copy_dir_recursive_NoCreateDir(src, p, st) ==
    LET s2 == Tick(st)
    IN  IF ~s2.ok THEN s2 ELSE CopyEntries(src, Children(src, p), s2)

copy_dir_recursive(src, p, st) ==
    LET s1 == IF p \notin st.tree.dirs THEN CreateDirAll(st, p) ELSE st
    IN  IF ~s1.ok THEN s1
        ELSE LET s2 == Tick(s1)                      \* fs::read_dir(src)?
             IN  IF ~s2.ok THEN s2 ELSE CopyEntries(src, Children(src, p), s2)

CopyEntries(src, entries, st) ==
    IF entries = {} \/ ~st.ok THEN st
    ELSE LET e  == CHOOSE x \in entries : TRUE
             s1 == Tick(st)                          \* entry?, entry.file_type()?
         IN  IF ~s1.ok THEN s1
             ELSE LET s2 == IF e \in src.dirs
                               THEN copy_dir_recursive(src, e, s1)
                               ELSE FsCopy(src, e, s1)
                  IN  CopyEntries(src, entries \ {e}, s2)

(***************************************************************************)
(* Documents of the config phase                                           *)
(***************************************************************************)
Uuid(n) == <<"uuid-v4", n>>

VesselUuid(c, n) ==
    IF c.mmsi = "" THEN <<"urn:mrn:signalk:uuid:", Uuid(n)>>
                   ELSE <<"urn:mrn:imo:mmsi:", c.mmsi>>

SettingsDoc(c) ==
    [interfaces |-> {"admin-ui", "appstore", "nmea-tcp", "plugins", "providers",
                     "rest", "tcp", "webapps", "ws"},
     ssl |-> c.enable_ssl, port |-> c.http_port, sslport |-> c.ssl_port,
     security |-> "./tokensecurity", pipedProviders |-> <<>>, enableLogging |-> TRUE]

BaseDeltasDoc(c, uuid) ==
    <<[context |-> "vessels.self",
       updates |-> <<[values |-> <<[path |-> "",
                                    value |-> [name |-> c.vessel_name, uuid |-> uuid]]>>]>>]>>

PackageDoc ==
    [name |-> "signalk-config", version |-> "0.0.1",
     description |-> "SignalK Server Configuration", dependencies |-> {}]

PriorPackageDoc ==
    [name |-> "signalk-config", version |-> "1.4.0",
     description |-> "SignalK Server Configuration", dependencies |-> {"a-plugin"}]

NpmrcDoc == "package-lock=false\n"

PriorNpmrcDoc == "registry=https://example.org/\n"

(***************************************************************************)
(* platform.rs: the descriptor templates, and setup_service's paths        *)
(***************************************************************************)
ManagedEnv == {<<"NODE_ENV", "production">>, <<"SIGNALK_MANAGED_INSTALL", "true">>}

create_systemd_service(config_path, node_path, server_path) ==
    [regime |-> "systemd", exec |-> <<node_path, server_path, "-c", config_path>>,
     restart |-> "always", env |-> ManagedEnv, user |-> "-"]

create_launchd_plist(config_path, node_path, server_path) ==
    [regime |-> "launchd", exec |-> <<node_path, server_path, "-c", config_path>>,
     restart |-> "KeepAlive", env |-> ManagedEnv, user |-> "-"]

create_task_xml(config_path, node_path, server_path, user) ==
    [regime |-> "task", exec |-> <<node_path, server_path, "-c", config_path>>,
     restart |-> "RestartOnFailure", env |-> {}, user |-> user]

\* install_dir.join(node_binary): where the extract phase copies the runtime executable
TargetNodePath == get_install_dir \o <<node_binary>>

\* install_dir.join("signalk-server"): where the extract phase copies the server tree
TargetServerPath == get_install_dir \o <<"signalk-server">>

ServiceNodePath == get_install_dir \o <<"node">>

ServiceServerPath == get_install_dir \o <<"signalk-server", "bin", "signalk-server">>

PlatformInfo(os, service_manager, requires_admin) ==
    [os |-> os, service_manager |-> service_manager, requires_admin |-> requires_admin]

get_info ==
    CASE platform = "linux"   -> PlatformInfo("linux", "systemd (user)", FALSE)
      [] platform = "macos"   -> PlatformInfo("macos", "launchd (user agent)", FALSE)
      [] platform = "windows" -> PlatformInfo("windows", "Task Scheduler", FALSE)
      [] OTHER                -> PlatformInfo("unknown", "none", FALSE)

HasRegime == platform \in {"linux", "macos", "windows"}

(***************************************************************************)
(* updater.rs                                                              *)
(***************************************************************************)
None == <<>>

Some(x) == <<x>>

\* format!("{prefix}{e}")
Format(prefix, e) == <<prefix, e>>

NonEmpty(str) == \E i \in 1..Len(str) : str[i] # ""

CurrentVersion == "1.0.0"

\* what the updater plugin's errors display as
ErrorTexts == {"network unreachable", ""}

\* the outcomes of updater.check().await: Ok(Some(update)), Ok(None), Err(e)
CheckOutcomes ==
    {[kind |-> "some", version |-> "2.0.0", body |-> b,
      download_url |-> "https://example.org/installer-2.0.0", error |-> ""] :
        b \in {None, Some("release notes")}}
    \cup {[kind |-> "none", version |-> "", body |-> None, download_url |-> "", error |-> ""]}
    \cup {[kind |-> "err", version |-> "", body |-> None, download_url |-> "", error |-> e] :
            e \in ErrorTexts}

UpdateInfo(available, latest, notes, url) ==
    [update_available |-> available, current_version |-> CurrentVersion,
     latest_version |-> latest, release_notes |-> notes, download_url |-> url]

NoUpdateInfo == UpdateInfo(FALSE, None, None, None)

OkInfo(info) == [ok |-> TRUE, info |-> info, err |-> <<>>]

ErrInfo(msg) == [ok |-> FALSE, info |-> NoUpdateInfo, err |-> msg]

NoUpdateResult == [ok |-> FALSE, info |-> NoUpdateInfo, err |-> <<"pending">>]

\* Result<(), String> of install_update
OkUnit == [ok |-> TRUE, err |-> <<>>]

ErrUnit(msg) == [ok |-> FALSE, err |-> msg]

NoUnitResult == [ok |-> FALSE, err |-> <<"pending">>]

\* variant of CheckResult: Ok(None) reports the running version as the latest one
CheckResult_LatestOnNone(o) ==
    CASE o.kind = "some" ->
            OkInfo(UpdateInfo(TRUE, Some(o.version), o.body, Some(o.download_url)))
      [] o.kind = "none" ->
            OkInfo(UpdateInfo(FALSE, Some(CurrentVersion), None, None))
      [] OTHER ->
            OkInfo(UpdateInfo(FALSE, None,
                              Some(Format("Update check failed: ", o.error)), None))

\* the match of check_for_updates on the outcome of updater.check()
CheckResult(o) ==
    CASE o.kind = "some" ->
            OkInfo(UpdateInfo(TRUE, Some(o.version), o.body, Some(o.download_url)))
      [] o.kind = "none" ->
            OkInfo(UpdateInfo(FALSE, None, None, None))
      [] OTHER ->
            OkInfo(UpdateInfo(FALSE, None,
                              Some(Format("Update check failed: ", o.error)), None))

(***************************************************************************)
(* Initial state: nothing is running; the config directory may already hold *)
(* a manifest and an npm configuration from an earlier installation.       *)
(***************************************************************************)
InitFs ==
    {[configDir |-> Exists(p) \/ Exists(n), installDir |-> FALSE, node |-> Absent,
      server |-> NoTree, settings |-> Absent, baseDeltas |-> Absent,
      package |-> p, npmrc |-> n, serviceDir |-> FALSE, descriptor |-> Absent] :
        p \in {Absent, File(PriorPackageDoc)}, n \in {Absent, File(PriorNpmrcDoc)}}

(***************************************************************************)
(* check_existing_install: the text of package.json and its parsing        *)
(***************************************************************************)
\* a text is a sequence of tokens <<kind, text>>
Tok(kind, text) == <<kind, text>>

LBrace == Tok("punct", "{")

RBrace == Tok("punct", "}")

Colon == Tok("punct", ":")

Comma == Tok("punct", ",")

JStr(s) == Tok("str", s)

JNum(s) == Tok("num", s)

JNull == Tok("null", "null")

\* a nested object or array, written out in full
JNested(s) == Tok("nested", s)

ValueKinds == {"str", "num", "null", "nested"}

Member(k, v) == <<JStr(k), Colon, v>>

RECURSIVE JoinMembers(_)
JoinMembers(ms) ==
    IF ms = <<>> THEN <<>>
    ELSE IF Len(ms) = 1 THEN ms[1]
    ELSE ms[1] \o <<Comma>> \o JoinMembers(Tail(ms))

\* serde_json::to_string_pretty of an object with these members
ObjectText(ms) == <<LBrace>> \o JoinMembers(ms) \o <<RBrace>>

PackageText(version, deps) ==
    ObjectText(<<Member("name", JStr("signalk-config")), Member("version", version),
                 Member("description", JStr("SignalK Server Configuration")),
                 Member("dependencies", JNested(deps))>>)

\* the manifest run_installation writes, and one that the plugin manager has rewritten
InstallerPackageText == PackageText(JStr(PackageDoc.version), "{}")

PriorPackageText == PackageText(JStr(PriorPackageDoc.version), "{a-plugin}")

Prefixes(t) == {SubSeq(t, 1, n) : n \in 0..Len(t)}

\* texts package.json may hold: the two manifests, every truncation of the rewritten one,
\* objects without a version or with a version that is no string, JSON that is no
\* object, a repeated key, and text that is no JSON
PackageTexts ==
    {InstallerPackageText}
      \cup Prefixes(PriorPackageText)
      \cup {ObjectText(<<>>),
            ObjectText(<<Member("name", JStr("signalk-config"))>>),
            ObjectText(<<Member("version", JNum("2"))>>),
            ObjectText(<<Member("version", JNull)>>),
            ObjectText(<<Member("version", JNested("{major:1}"))>>),
            ObjectText(<<Member("version", JStr(""))>>),
            ObjectText(<<Member("version", JNum("2")), Member("version", JStr("2.0.0"))>>),
            ObjectText(<<Member("version", JStr("2.0.0")), Member("version", JNull)>>),
            <<JStr("1.4.0")>>, <<JNum("2")>>,
            <<JStr("version"), Colon, JStr("1.4.0")>>,
            <<LBrace, JStr("version"), JStr("1.4.0"), RBrace>>,
            <<LBrace, JStr("version"), Colon, JStr("1.4.0"), Comma, RBrace>>,
            <<LBrace, JNum("1"), Colon, JStr("1.4.0"), RBrace>>}

\* serde_json::Value
JsonScalar(tok) == [type |-> tok[1], text |-> tok[2], members |-> <<>>]

JsonObject(ms) == [type |-> "object", text |-> "", members |-> ms]

\* the tokens between the braces are members separated by commas
WellFormedMembers(inner) ==
    \/ inner = <<>>
    \/ /\ (Len(inner) + 1) % 4 = 0
       /\ \A i \in 1..Len(inner) :
             CASE i % 4 = 1 -> inner[i][1] = "str"
               [] i % 4 = 2 -> inner[i] = Colon
               [] i % 4 = 3 -> inner[i][1] \in ValueKinds
               [] OTHER     -> inner[i] = Comma

\* serde_json::from_str::<Value>(&content).ok()
from_str(t) ==
    IF Len(t) = 1 /\ t[1][1] \in ValueKinds
       THEN Some(JsonScalar(t[1]))
    ELSE IF Len(t) >= 2 /\ t[1] = LBrace /\ t[Len(t)] = RBrace
            /\ WellFormedMembers(SubSeq(t, 2, Len(t) - 1))
       THEN LET inner == SubSeq(t, 2, Len(t) - 1)
            IN  Some(JsonObject([i \in 1..((Len(inner) + 1) \div 4) |->
                                    <<inner[4 * i - 3][2], inner[4 * i - 1]>>]))
    ELSE None

\* Value::get(key): the member of an object, the last one when the key is repeated
get(json, key) ==
    LET hits == {i \in 1..Len(json.members) : json.members[i][1] = key}
    IN  IF json.type # "object" \/ hits = {} THEN None
        ELSE Some(JsonScalar(json.members[CHOOSE i \in hits : \A j \in hits : j <= i][2]))

\* variant of as_str: any scalar is rendered as a string
as_str_AnyScalar(v) == Some(v.text)

\* Value::as_str
as_str(v) == IF v.type = "str" THEN Some(v.text) ELSE None

\* fs::read_to_string(&package_path).ok()
read_to_string(file, readable) == IF Exists(file) /\ readable THEN Some(file[1]) ELSE None

ExistingInstall(found, config_path, version) ==
    [found |-> found, config_path |-> config_path, version |-> version]

\* json.get("version").and_then(|v| v.as_str().map(String::from))
VersionOf(json) ==
    LET v == get(json, "version")
    IN  IF v = None THEN None ELSE as_str(v[1])

\* variant of check_existing_install: the sibling manifest is not consulted
check_existing_install_NoManifest(settings, package, readable) ==
    IF Exists(settings)
       THEN ExistingInstall(TRUE, Some(get_config_dir), None)
       ELSE ExistingInstall(FALSE, None, None)

check_existing_install(settings, package, readable) ==
    IF Exists(settings)
       THEN LET content == read_to_string(package, readable)
                json == IF content = None THEN None ELSE from_str(content[1])
                version == IF json = None THEN None ELSE VersionOf(json[1])
            IN  ExistingInstall(TRUE, Some(get_config_dir), version)
       ELSE ExistingInstall(FALSE, None, None)

NoExistingInstall == ExistingInstall(FALSE, <<"pending">>, <<"pending">>)

DetIdle ==
    [settings |-> Absent, package |-> Absent, readable |-> TRUE,
     state |-> "idle", result |-> NoExistingInstall]

InitUpd ==
    [cfu |-> "idle", cfuCheck |-> "-", cfuResult |-> NoUpdateResult,
     iu |-> "idle", iuCheck |-> "-", iuDownload |-> "not_started",
     downloaded |-> 0, total |-> 0, iuResult |-> NoUnitResult]

InitInstaller ==
    /\ platform \in Platforms
    /\ homeKnown \in BOOLEAN
    /\ resources \in [node : BOOLEAN, server : BOOLEAN]
    /\ fs \in InitFs
    /\ pc = [r \in Runs |-> "idle"]
    /\ config = [r \in Runs |-> NoConfig]
    /\ log = [r \in Runs |-> <<>>]
    /\ vessel_uuid = [r \in Runs |-> <<>>]
    /\ pathAbsent = [r \in Runs |-> FALSE]
    /\ result = [r \in Runs |-> NoResult]
    /\ failedPhase = [r \in Runs |-> "none"]
    /\ fsAtStart = [r \in Runs |-> fs]
    /\ started = 0
    /\ uuidCount = 0
    /\ okRuns = 0
    /\ overlap = FALSE
    /\ cp = NoCopy
    /\ delivered = [r \in Runs |-> <<>>]
    /\ observer = "listening"
    /\ det = DetIdle

Init == InitInstaller /\ upd = InitUpd

(***************************************************************************)
(* run_installation, one step per fallible call                            *)
(***************************************************************************)
FrameButOkRuns ==
    UNCHANGED <<platform, homeKnown, resources, config, fsAtStart, started, cp, observer,
                det, overlap, upd>>

Frame == FrameButOkRuns /\ UNCHANGED okRuns

Locals == UNCHANGED <<vessel_uuid, pathAbsent, uuidCount>>

\* app.emit hands the events that l adds to the log to the front end, if it listens
Deliver(r, l) ==
    delivered' = [delivered EXCEPT ![r] =
                     IF observer = "listening"
                        THEN @ \o SelectSeq(SubSeq(l, Len(log[r]) + 1, Len(l)),
                                            LAMBDA x : x.kind = "event")
                        ELSE @]

\* variant of Advance: an event that cannot be delivered ends run_installation
Advance_EmitMustDeliver(r, to, l, f) ==
    IF observer = "gone" /\ \E i \in (Len(log[r]) + 1)..Len(l) : l[i].kind = "event"
       THEN /\ pc' = [pc EXCEPT ![r] = "done"]
            /\ log' = [log EXCEPT ![r] = l]
            /\ Deliver(r, l)
            /\ fs' = fs
            /\ result' = [result EXCEPT ![r] = Err("Failed to emit progress")]
            /\ failedPhase' = [failedPhase EXCEPT ![r] = l[Len(l)].step]
       ELSE /\ pc' = [pc EXCEPT ![r] = to]
            /\ log' = [log EXCEPT ![r] = l]
            /\ Deliver(r, l)
            /\ fs' = f
            /\ UNCHANGED <<result, failedPhase>>

\* the call succeeded: go on to the next statement
Advance(r, to, l, f) ==
    /\ pc' = [pc EXCEPT ![r] = to]
    /\ log' = [log EXCEPT ![r] = l]
    /\ Deliver(r, l)
    /\ fs' = f
    /\ UNCHANGED <<result, failedPhase>>

\* variant of Abort: the failure is also reported as a progress event
Abort_EmitsFailed(r, phase, msg, l, f) ==
    /\ pc' = [pc EXCEPT ![r] = "done"]
    /\ log' = [log EXCEPT ![r] = emit_progress(l, phase, "failed", msg)]
    /\ Deliver(r, emit_progress(l, phase, "failed", msg))
    /\ fs' = f
    /\ result' = [result EXCEPT ![r] = Err(msg)]
    /\ failedPhase' = [failedPhase EXCEPT ![r] = phase]

\* the `?` operator (or an explicit return Err): leave run_installation at once
Abort(r, phase, msg, l, f) ==
    /\ pc' = [pc EXCEPT ![r] = "done"]
    /\ log' = [log EXCEPT ![r] = l]
    /\ Deliver(r, l)
    /\ fs' = f
    /\ result' = [result EXCEPT ![r] = Err(msg)]
    /\ failedPhase' = [failedPhase EXCEPT ![r] = phase]

\* the environment in which repeated invocations are explored to MaxRuns: a linux build
\* with a home directory and a complete bundle; elsewhere to MaxRunsElsewhere
ReferenceEnvironment ==
    platform = "linux" /\ homeKnown /\ resources = [node |-> TRUE, server |-> TRUE]

RunBound == IF ReferenceEnvironment THEN MaxRuns ELSE MaxRunsElsewhere

\* the tauri command: the front end, listening, invokes run_installation with a config
Start(r) ==
    /\ pc[r] \in {"idle", "done"}
    /\ r = FirstRun
    /\ \A q \in Runs \ {r} : pc[q] = "idle"
    /\ started < RunBound
    /\ \E c \in Configs : config' = [config EXCEPT ![r] = c]
    /\ pc' = [pc EXCEPT ![r] = "create_config_dir"]
    /\ log' = [log EXCEPT ![r] = <<>>]
    /\ result' = [result EXCEPT ![r] = NoResult]
    /\ failedPhase' = [failedPhase EXCEPT ![r] = "none"]
    /\ vessel_uuid' = [vessel_uuid EXCEPT ![r] = <<>>]
    /\ pathAbsent' = [pathAbsent EXCEPT ![r] = FALSE]
    /\ fsAtStart' = [fsAtStart EXCEPT ![r] = fs]
    /\ started' = started + 1
    /\ delivered' = [delivered EXCEPT ![r] = <<>>]
    /\ observer' = "listening"
    /\ UNCHANGED <<platform, homeKnown, resources, fs, uuidCount, okRuns, overlap, cp, det,
                   upd>>

\* variant of CreateConfigDir: the phase is announced after its first call has succeeded
CreateConfigDir_EmitsLate(r) ==
    /\ pc[r] = "create_config_dir"
    /\ LET l == emit_progress(log[r], "extract", "in_progress",
                              "Preparing installation directory...")
       IN  \/ Advance(r, "create_install_dir", Append(l, Wr("extract", "config_dir")),
                      [fs EXCEPT !.configDir = TRUE])
           \/ Abort(r, "extract", "Failed to create config directory", log[r], fs)
    /\ Frame /\ Locals

\* variant of ResourceDir: the second in_progress event of extract is left out
ResourceDir_NoSecondEmit(r) ==
    /\ pc[r] = "resource_dir"
    /\ \/ Advance(r, "copy_node", log[r], fs)
       \/ Abort(r, "extract", "Failed to get resource directory", log[r], fs)
    /\ Frame /\ Locals

CreateConfigDir(r) ==
    /\ pc[r] = "create_config_dir"
    /\ LET l == emit_progress(log[r], "extract", "in_progress",
                              "Preparing installation directory...")
       IN  \/ Advance(r, "create_install_dir", Append(l, Wr("extract", "config_dir")),
                      [fs EXCEPT !.configDir = TRUE])
           \/ Abort(r, "extract", "Failed to create config directory", l, fs)
    /\ Frame /\ Locals

CreateInstallDir(r) ==
    /\ pc[r] = "create_install_dir"
    /\ \/ Advance(r, "resource_dir", Append(log[r], Wr("extract", "install_dir")),
                  [fs EXCEPT !.installDir = TRUE])
       \/ Abort(r, "extract", "Failed to create install directory", log[r], fs)
    /\ Frame /\ Locals

ResourceDir(r) ==
    /\ pc[r] = "resource_dir"
    /\ LET l == emit_progress(log[r], "extract", "in_progress",
                              "Extracting Node.js and SignalK Server...")
       IN  \/ Advance(r, "copy_node", l, fs)
           \/ Abort(r, "extract", "Failed to get resource directory", l, fs)
    /\ Frame /\ Locals

\* variant of CopyNode: the copy is attempted without the exists() test
CopyNode_NoExistsTest(r) ==
    /\ pc[r] = "copy_node"
    /\ IF resources.node
          THEN Advance(r, IF IsUnix THEN "node_metadata" ELSE "copy_server",
                       Append(log[r], Wr("extract", "node")),
                       [fs EXCEPT !.node = File(BundledNode)])
          ELSE Abort(r, "extract", "Failed to copy Node.js", log[r], fs)
    /\ Frame /\ Locals

\* if bundled_node.exists() { fs::copy(..)?; ... }
CopyNode(r) ==
    /\ pc[r] = "copy_node"
    /\ IF resources.node
          THEN \/ Advance(r, IF IsUnix THEN "node_metadata" ELSE "copy_server",
                          Append(log[r], Wr("extract", "node")),
                          [fs EXCEPT !.node = File(BundledNode)])
               \/ \E f \in FailedWrite(fs.node) :
                     Abort(r, "extract", "Failed to copy Node.js",
                           IF f = fs.node THEN log[r]
                                          ELSE Append(log[r], Wr("extract", "node")),
                           [fs EXCEPT !.node = f])
          ELSE Advance(r, "copy_server", log[r], fs)
    /\ Frame /\ Locals

\* #[cfg(unix)] fs::metadata(&target_node)?
NodeMetadata(r) ==
    /\ pc[r] = "node_metadata"
    /\ \/ Advance(r, "node_set_permissions", log[r], fs)
       \/ Abort(r, "extract", "Failed to get node permissions", log[r], fs)
    /\ Frame /\ Locals

\* set_mode(0o755) on the target file; a file another invocation's failed copy has left
\* truncated stays truncated
SetMode755(file) == IF file = Partial THEN Partial ELSE File([file[1] EXCEPT !.mode = Mode755])

\* #[cfg(unix)] perms.set_mode(0o755); fs::set_permissions(&target_node, perms)?
NodeSetPermissions(r) ==
    /\ pc[r] = "node_set_permissions"
    /\ \/ Advance(r, "copy_server", Append(log[r], Wr("extract", "node_mode")),
                  [fs EXCEPT !.node = SetMode755(fs.node)])
       \/ Abort(r, "extract", "Failed to set node permissions", log[r], fs)
    /\ Frame /\ Locals

\* if bundled_server.exists() { copy_dir_recursive(..)? }
CopyServer(r) ==
    /\ pc[r] = "copy_server"
    /\ IF resources.server
          THEN \E fuel \in 0..MaxCopyFuel :
                  LET st == copy_dir_recursive(BundledServer, <<>>,
                                [tree |-> fs.server, fuel |-> fuel, ok |-> TRUE,
                                 ops |-> <<>>])
                      l  == IF st.tree = fs.server THEN log[r]
                                                   ELSE Append(log[r], Wr("extract", "server"))
                  IN  IF st.ok
                         THEN Advance(r, "write_settings", l, [fs EXCEPT !.server = st.tree])
                         ELSE Abort(r, "extract", "Failed to copy SignalK Server", l,
                                    [fs EXCEPT !.server = st.tree])
          ELSE Advance(r, "write_settings", log[r], fs)
    /\ Frame /\ Locals

\* variant of WriteSettings: a settings.json that is already there is kept
WriteSettings_KeepsExisting(r) ==
    /\ pc[r] = "write_settings"
    /\ LET l1 == emit_progress(log[r], "extract", "completed", NoMessage)
           l2 == emit_progress(l1, "config", "in_progress", "Writing configuration files...")
       IN  /\ IF config[r].mmsi = ""
                 THEN /\ uuidCount' = uuidCount + 1
                      /\ vessel_uuid' = [vessel_uuid EXCEPT
                                            ![r] = VesselUuid(config[r], uuidCount + 1)]
                 ELSE /\ uuidCount' = uuidCount
                      /\ vessel_uuid' = [vessel_uuid EXCEPT ![r] = VesselUuid(config[r], 0)]
           /\ IF Exists(fs.settings)
                 THEN Advance(r, "write_base_deltas", l2, fs)
                 ELSE \/ Advance(r, "write_base_deltas", Append(l2, Wr("config", "settings")),
                                 [fs EXCEPT !.settings = File(SettingsDoc(config[r]))])
                      \/ \E f \in FailedWrite(fs.settings) :
                            Abort(r, "config", "Failed to write settings.json",
                                  IF f = fs.settings THEN l2
                                                     ELSE Append(l2, Wr("config", "settings")),
                                  [fs EXCEPT !.settings = f])
    /\ Frame /\ UNCHANGED pathAbsent

\* variant of WriteSettings: the uuid is generated once and used again by later runs
WriteSettings_ReusesUuid(r) ==
    /\ pc[r] = "write_settings"
    /\ LET l1 == emit_progress(log[r], "extract", "completed", NoMessage)
           l2 == emit_progress(l1, "config", "in_progress", "Writing configuration files...")
       IN  /\ uuidCount' = uuidCount
           /\ vessel_uuid' = [vessel_uuid EXCEPT ![r] = VesselUuid(config[r], 1)]
           /\ \/ Advance(r, "write_base_deltas", Append(l2, Wr("config", "settings")),
                         [fs EXCEPT !.settings = File(SettingsDoc(config[r]))])
              \/ \E f \in FailedWrite(fs.settings) :
                    Abort(r, "config", "Failed to write settings.json",
                          IF f = fs.settings THEN l2 ELSE Append(l2, Wr("config", "settings")),
                          [fs EXCEPT !.settings = f])
    /\ Frame /\ UNCHANGED pathAbsent

\* extract completed; config in_progress; vessel_uuid; fs::write(settings.json)?
WriteSettings(r) ==
    /\ pc[r] = "write_settings"
    /\ LET l1 == emit_progress(log[r], "extract", "completed", NoMessage)
           l2 == emit_progress(l1, "config", "in_progress", "Writing configuration files...")
       IN  /\ IF config[r].mmsi = ""
                 THEN /\ uuidCount' = uuidCount + 1
                      /\ vessel_uuid' = [vessel_uuid EXCEPT
                                            ![r] = VesselUuid(config[r], uuidCount + 1)]
                 ELSE /\ uuidCount' = uuidCount
                      /\ vessel_uuid' = [vessel_uuid EXCEPT ![r] = VesselUuid(config[r], 0)]
           /\ \/ Advance(r, "write_base_deltas", Append(l2, Wr("config", "settings")),
                         [fs EXCEPT !.settings = File(SettingsDoc(config[r]))])
              \/ \E f \in FailedWrite(fs.settings) :
                    Abort(r, "config", "Failed to write settings.json",
                          IF f = fs.settings THEN l2 ELSE Append(l2, Wr("config", "settings")),
                          [fs EXCEPT !.settings = f])
    /\ Frame /\ UNCHANGED pathAbsent

\* variant of WriteBaseDeltas: the error of fs::write is recorded but not returned
WriteBaseDeltas_NoReturn(r) ==
    /\ pc[r] = "write_base_deltas"
    /\ \/ Advance(r, "check_package", Append(log[r], Wr("config", "baseDeltas")),
                  [fs EXCEPT !.baseDeltas = File(BaseDeltasDoc(config[r], vessel_uuid[r]))])
       \/ /\ pc' = [pc EXCEPT ![r] = "check_package"]
          /\ result' = [result EXCEPT ![r] = Err("Failed to write baseDeltas.json")]
          /\ failedPhase' = [failedPhase EXCEPT ![r] = "config"]
          /\ UNCHANGED <<log, fs, delivered>>
    /\ Frame /\ Locals

WriteBaseDeltas(r) ==
    /\ pc[r] = "write_base_deltas"
    /\ \/ Advance(r, "check_package", Append(log[r], Wr("config", "baseDeltas")),
                  [fs EXCEPT !.baseDeltas = File(BaseDeltasDoc(config[r], vessel_uuid[r]))])
       \/ \E f \in FailedWrite(fs.baseDeltas) :
             Abort(r, "config", "Failed to write baseDeltas.json",
                   IF f = fs.baseDeltas THEN log[r]
                                        ELSE Append(log[r], Wr("config", "baseDeltas")),
                   [fs EXCEPT !.baseDeltas = f])
    /\ Frame /\ Locals

\* variant of CheckPackage: package.json is written whether or not it exists
CheckPackage_AlwaysWrite(r) ==
    /\ pc[r] = "check_package"
    /\ pathAbsent' = [pathAbsent EXCEPT ![r] = TRUE]
    /\ Advance(r, "write_package", log[r], fs)
    /\ Frame /\ UNCHANGED <<vessel_uuid, uuidCount>>

\* if !package_path.exists()
CheckPackage(r) ==
    /\ pc[r] = "check_package"
    /\ pathAbsent' = [pathAbsent EXCEPT ![r] = ~Exists(fs.package)]
    /\ Advance(r, IF Exists(fs.package) THEN "check_npmrc" ELSE "write_package", log[r], fs)
    /\ Frame /\ UNCHANGED <<vessel_uuid, uuidCount>>

\* variant of WritePackage: the error of fs::write is recorded and the phase goes on
WritePackage_NoReturn(r) ==
    /\ pc[r] = "write_package"
    /\ \/ Advance(r, "check_npmrc", Append(log[r], Wr("config", "package")),
                  [fs EXCEPT !.package = File(PackageDoc)])
       \/ \E f \in FailedWrite(fs.package) :
             /\ pc' = [pc EXCEPT ![r] = "check_npmrc"]
             /\ result' = [result EXCEPT ![r] = Err("Failed to write package.json")]
             /\ failedPhase' = [failedPhase EXCEPT ![r] = "config"]
             /\ fs' = [fs EXCEPT !.package = f]
             /\ UNCHANGED <<log, delivered>>
    /\ Frame /\ Locals

WritePackage(r) ==
    /\ pc[r] = "write_package"
    /\ \/ Advance(r, "check_npmrc", Append(log[r], Wr("config", "package")),
                  [fs EXCEPT !.package = File(PackageDoc)])
       \/ \E f \in FailedWrite(fs.package) :
             Abort(r, "config", "Failed to write package.json",
                   IF f = fs.package THEN log[r] ELSE Append(log[r], Wr("config", "package")),
                   [fs EXCEPT !.package = f])
    /\ Frame /\ Locals

\* if !npmrc_path.exists()
CheckNpmrc(r) ==
    /\ pc[r] = "check_npmrc"
    /\ pathAbsent' = [pathAbsent EXCEPT ![r] = ~Exists(fs.npmrc)]
    /\ Advance(r, IF Exists(fs.npmrc) THEN "service" ELSE "write_npmrc", log[r], fs)
    /\ Frame /\ UNCHANGED <<vessel_uuid, uuidCount>>

WriteNpmrc(r) ==
    /\ pc[r] = "write_npmrc"
    /\ \/ Advance(r, "service", Append(log[r], Wr("config", "npmrc")),
                  [fs EXCEPT !.npmrc = File(NpmrcDoc)])
       \/ \E f \in FailedWrite(fs.npmrc) :
             Abort(r, "config", "Failed to write .npmrc",
                   IF f = fs.npmrc THEN log[r] ELSE Append(log[r], Wr("config", "npmrc")),
                   [fs EXCEPT !.npmrc = f])
    /\ Frame /\ Locals

\* variant of EnterService: the service phase is announced under the step name "verify"
EnterService_WrongStep(r) ==
    /\ pc[r] = "service"
    /\ LET l1 == emit_progress(log[r], "config", "completed", NoMessage)
           l2 == emit_progress(l1, "verify", "in_progress", "Configuring auto-start...")
           to == IF ~config[r].enable_auto_start THEN "verify"
                 ELSE CASE platform \in {"linux", "macos"} -> "service_dir"
                        [] platform = "windows"            -> "service_write"
                        [] OTHER                           -> "verify"
       IN  Advance(r, to, l2, fs)
    /\ Frame /\ Locals

\* variant of EnterService: setup_service is called whatever enable_auto_start says
EnterService_AlwaysSetup(r) ==
    /\ pc[r] = "service"
    /\ LET l1 == emit_progress(log[r], "config", "completed", NoMessage)
           l2 == emit_progress(l1, "service", "in_progress", "Configuring auto-start...")
           to == CASE platform \in {"linux", "macos"} -> "service_dir"
                   [] platform = "windows"            -> "service_write"
                   [] OTHER                           -> "verify"
       IN  Advance(r, to, l2, fs)
    /\ Frame /\ Locals

\* variant of EnterService: without a service regime setup_service returns an error
EnterService_FailsWithoutRegime(r) ==
    /\ pc[r] = "service"
    /\ LET l1 == emit_progress(log[r], "config", "completed", NoMessage)
           l2 == emit_progress(l1, "service", "in_progress", "Configuring auto-start...")
       IN  IF ~config[r].enable_auto_start
              THEN Advance(r, "verify", l2, fs)
              ELSE CASE platform \in {"linux", "macos"} -> Advance(r, "service_dir", l2, fs)
                     [] platform = "windows" -> Advance(r, "service_write", l2, fs)
                     [] OTHER -> Abort(r, "service", "Unsupported platform", l2, fs)
    /\ Frame /\ Locals

\* config completed; service in_progress; if config.enable_auto_start { setup_service(..)? }
EnterService(r) ==
    /\ pc[r] = "service"
    /\ LET l1 == emit_progress(log[r], "config", "completed", NoMessage)
           l2 == emit_progress(l1, "service", "in_progress", "Configuring auto-start...")
           to == IF ~config[r].enable_auto_start THEN "verify"
                 ELSE CASE platform \in {"linux", "macos"} -> "service_dir"
                        [] platform = "windows"            -> "service_write"
                        [] OTHER                           -> "verify"
       IN  Advance(r, to, l2, fs)
    /\ Frame /\ Locals

\* variant of ServiceDir: a failure removes the documents of the config phase
ServiceDir_Rollback(r) ==
    /\ pc[r] = "service_dir"
    /\ \/ /\ homeKnown
          /\ Advance(r, "service_write", Append(log[r], Wr("service", "service_dir")),
                     [fs EXCEPT !.serviceDir = TRUE])
       \/ Abort(r, "service", "Failed to create systemd directory", log[r],
                [fs EXCEPT !.settings = Absent, !.baseDeltas = Absent])
    /\ Frame /\ Locals

\* setup_service, linux and macos: resolve the descriptor directory and create it
ServiceDir(r) ==
    /\ pc[r] = "service_dir"
    /\ IF ~homeKnown
          THEN Abort(r, "service",
                     IF platform = "linux" THEN "Could not determine systemd user directory"
                                           ELSE "Could not determine LaunchAgents directory",
                     log[r], fs)
          ELSE \/ Advance(r, "service_write", Append(log[r], Wr("service", "service_dir")),
                          [fs EXCEPT !.serviceDir = TRUE])
               \/ Abort(r, "service",
                        IF platform = "linux" THEN "Failed to create systemd directory"
                                              ELSE "Failed to create LaunchAgents directory",
                        log[r], fs)
    /\ Frame /\ Locals

\* setup_service: render the descriptor and fs::write it to its destination
ServiceWrite(r) ==
    /\ pc[r] = "service_write"
    /\ \E user \in {"alice", "User"} :
        LET d == CASE platform = "linux" ->
                        create_systemd_service(get_config_dir, ServiceNodePath, ServiceServerPath)
                   [] platform = "macos" ->
                        create_launchd_plist(get_config_dir, ServiceNodePath, ServiceServerPath)
                   [] OTHER ->
                        create_task_xml(get_config_dir, ServiceNodePath, ServiceServerPath, user)
        IN  \/ Advance(r, "verify", Append(log[r], Wr("service", "descriptor")),
                       [fs EXCEPT !.descriptor = File(d)])
            \/ \E f \in FailedWrite(fs.descriptor) :
                  Abort(r, "service",
                        CASE platform = "linux" -> "Failed to write systemd service"
                          [] platform = "macos" -> "Failed to write launchd plist"
                          [] OTHER              -> "Failed to write task XML",
                        IF f = fs.descriptor THEN log[r]
                                             ELSE Append(log[r], Wr("service", "descriptor")),
                        [fs EXCEPT !.descriptor = f])
    /\ Frame /\ Locals

\* variant of Verify: the service phase is reported completed twice
Verify_DoubleCompleted(r) ==
    /\ pc[r] = "verify"
    /\ LET l0 == emit_progress(log[r], "service", "completed", NoMessage)
           l1 == emit_progress(l0, "service", "completed", NoMessage)
           l2 == emit_progress(l1, "verify", "in_progress", "Verifying installation...")
       IN  IF ~Exists(fs.settings)
              THEN /\ Abort(r, "verify",
                            "Installation verification failed: settings.json not found", l2, fs)
                   /\ okRuns' = okRuns
              ELSE /\ pc' = [pc EXCEPT ![r] = "done"]
                   /\ log' = [log EXCEPT ![r] = emit_progress(l2, "verify", "completed", NoMessage)]
                   /\ Deliver(r, emit_progress(l2, "verify", "completed", NoMessage))
                   /\ result' = [result EXCEPT ![r] = Ok]
                   /\ okRuns' = okRuns + 1
                   /\ UNCHANGED <<fs, failedPhase>>
    /\ FrameButOkRuns /\ Locals

\* variant of Verify: the run is reported as verified without looking at settings.json
Verify_NoExistsTest(r) ==
    /\ pc[r] = "verify"
    /\ LET l1 == emit_progress(log[r], "service", "completed", NoMessage)
           l2 == emit_progress(l1, "verify", "in_progress", "Verifying installation...")
       IN  /\ pc' = [pc EXCEPT ![r] = "done"]
           /\ log' = [log EXCEPT ![r] = emit_progress(l2, "verify", "completed", NoMessage)]
           /\ Deliver(r, emit_progress(l2, "verify", "completed", NoMessage))
           /\ result' = [result EXCEPT ![r] = Ok]
           /\ okRuns' = okRuns + 1
           /\ UNCHANGED <<fs, failedPhase>>
    /\ FrameButOkRuns /\ Locals

\* service completed; verify in_progress; settings_path.exists(); verify completed; Ok(())
Verify(r) ==
    /\ pc[r] = "verify"
    /\ LET l1 == emit_progress(log[r], "service", "completed", NoMessage)
           l2 == emit_progress(l1, "verify", "in_progress", "Verifying installation...")
       IN  IF ~Exists(fs.settings)
              THEN /\ Abort(r, "verify",
                            "Installation verification failed: settings.json not found", l2, fs)
                   /\ okRuns' = okRuns
              ELSE /\ pc' = [pc EXCEPT ![r] = "done"]
                   /\ log' = [log EXCEPT ![r] = emit_progress(l2, "verify", "completed", NoMessage)]
                   /\ Deliver(r, emit_progress(l2, "verify", "completed", NoMessage))
                   /\ result' = [result EXCEPT ![r] = Ok]
                   /\ okRuns' = okRuns + 1
                   /\ UNCHANGED <<fs, failedPhase>>
    /\ FrameButOkRuns /\ Locals

RunStep(r) ==
    \/ CreateConfigDir(r) \/ CreateInstallDir(r) \/ ResourceDir(r)
    \/ CopyNode(r) \/ NodeMetadata(r) \/ NodeSetPermissions(r) \/ CopyServer(r)
    \/ WriteSettings(r) \/ WriteBaseDeltas(r)
    \/ CheckPackage(r) \/ WritePackage(r) \/ CheckNpmrc(r) \/ WriteNpmrc(r)
    \/ EnterService(r) \/ ServiceDir(r) \/ ServiceWrite(r) \/ Verify(r)

Next == \E r \in Runs : Start(r) \/ RunStep(r)

Spec == Init /\ [][Next]_vars

(***************************************************************************)
(* The update manager's commands                                           *)
(***************************************************************************)
UpdFrame == UNCHANGED installerVars

\* the tauri command check_for_updates is invoked
CfuCall ==
    /\ upd.cfu \in {"idle", "done"}
    /\ upd' = [upd EXCEPT !.cfu = "updater", !.cfuCheck = "-", !.cfuResult = NoUpdateResult]
    /\ UpdFrame

\* let updater = app.updater().map_err(..)?
CfuGetUpdater ==
    /\ upd.cfu = "updater"
    /\ \/ upd' = [upd EXCEPT !.cfu = "check"]
       \/ \E e \in ErrorTexts :
             upd' = [upd EXCEPT !.cfu = "done",
                                !.cfuResult = ErrInfo(Format("Failed to get updater: ", e))]
    /\ UpdFrame

\* match updater.check().await { .. }
CfuCheck ==
    /\ upd.cfu = "check"
    /\ \E o \in CheckOutcomes :
          upd' = [upd EXCEPT !.cfu = "done", !.cfuCheck = o.kind, !.cfuResult = CheckResult(o)]
    /\ UpdFrame

\* the tauri command install_update is invoked
IuCall ==
    /\ upd.iu \in {"idle", "done"}
    /\ upd' = [upd EXCEPT !.iu = "updater", !.iuCheck = "-", !.iuDownload = "not_started",
                          !.downloaded = 0, !.total = 0, !.iuResult = NoUnitResult]
    /\ UpdFrame

IuGetUpdater ==
    /\ upd.iu = "updater"
    /\ \/ upd' = [upd EXCEPT !.iu = "check"]
       \/ \E e \in ErrorTexts :
             upd' = [upd EXCEPT !.iu = "done",
                                !.iuResult = ErrUnit(Format("Failed to get updater: ", e))]
    /\ UpdFrame

\* variant of IuCheck: Ok(None) is answered with Ok(())
IuCheck_NoneIsOk ==
    /\ upd.iu = "check"
    /\ \E o \in CheckOutcomes :
          CASE o.kind = "some" ->
                  upd' = [upd EXCEPT !.iu = "download", !.iuCheck = o.kind,
                                     !.iuDownload = "running"]
            [] o.kind = "none" ->
                  upd' = [upd EXCEPT !.iu = "done", !.iuCheck = o.kind, !.iuResult = OkUnit]
            [] OTHER ->
                  upd' = [upd EXCEPT !.iu = "done", !.iuCheck = o.kind,
                                     !.iuResult = ErrUnit(Format("Failed to check for updates: ",
                                                             o.error))]
    /\ UpdFrame

\* match updater.check().await { Ok(Some(update)) => .., Ok(None) => Err, Err(e) => Err }
IuCheck ==
    /\ upd.iu = "check"
    /\ \E o \in CheckOutcomes :
          CASE o.kind = "some" ->
                  upd' = [upd EXCEPT !.iu = "download", !.iuCheck = o.kind,
                                     !.iuDownload = "running"]
            [] o.kind = "none" ->
                  upd' = [upd EXCEPT !.iu = "done", !.iuCheck = o.kind,
                                     !.iuResult = ErrUnit(<<"No update available">>)]
            [] OTHER ->
                  upd' = [upd EXCEPT !.iu = "done", !.iuCheck = o.kind,
                                     !.iuResult = ErrUnit(Format("Failed to check for updates: ",
                                                             o.error))]
    /\ UpdFrame

\* the on-chunk closure of download_and_install
IuChunk ==
    /\ upd.iu = "download"
    /\ \E chunk_length \in 1..MaxChunk, content_length \in {None, Some(MaxBytes)} :
          /\ upd.downloaded + chunk_length <= MaxBytes
          /\ upd' = [upd EXCEPT !.downloaded = @ + chunk_length,
                                !.total = IF content_length = None THEN 0
                                                                   ELSE content_length[1]]
    /\ UpdFrame

\* download_and_install(..).await.map_err(..)?; Ok(())
IuFinish ==
    /\ upd.iu = "download"
    /\ \/ upd' = [upd EXCEPT !.iu = "done", !.iuDownload = "installed", !.iuResult = OkUnit]
       \/ \E e \in ErrorTexts :
             upd' = [upd EXCEPT !.iu = "done", !.iuDownload = "failed",
                                !.iuResult = ErrUnit(Format("Failed to download and install update: ",
                                                        e))]
    /\ UpdFrame

NextUpd == CfuCall \/ CfuGetUpdater \/ CfuCheck
           \/ IuCall \/ IuGetUpdater \/ IuCheck \/ IuChunk \/ IuFinish

InitUpdOnly ==
    /\ platform = "linux"
    /\ homeKnown = TRUE
    /\ resources = [node |-> TRUE, server |-> TRUE]
    /\ fs = CHOOSE f \in InitFs : ~f.configDir
    /\ pc = [r \in Runs |-> "idle"]
    /\ config = [r \in Runs |-> NoConfig]
    /\ log = [r \in Runs |-> <<>>]
    /\ vessel_uuid = [r \in Runs |-> <<>>]
    /\ pathAbsent = [r \in Runs |-> FALSE]
    /\ result = [r \in Runs |-> NoResult]
    /\ failedPhase = [r \in Runs |-> "none"]
    /\ fsAtStart = [r \in Runs |-> fs]
    /\ started = 0
    /\ uuidCount = 0
    /\ okRuns = 0
    /\ overlap = FALSE
    /\ cp = NoCopy
    /\ delivered = [r \in Runs |-> <<>>]
    /\ observer = "listening"
    /\ det = DetIdle
    /\ upd = InitUpd

SpecUpd == InitUpdOnly /\ [][NextUpd]_vars

(***************************************************************************)
(* Properties of run_installation (checked under Spec)                     *)
(***************************************************************************)
Events(r) == SelectSeq(log[r], LAMBDA e : e.kind = "event")

Writes(r) == SelectSeq(log[r], LAMBDA e : e.kind = "write")

Finished(r) == pc[r] = "done"

Succeeded(r) == Finished(r) /\ result[r].ok

Failed(r) == Finished(r) /\ ~result[r].ok

\* number of terminal events of the step of ev[j] that follow ev[j]
TerminalsAfter(ev, j) ==
    Cardinality({k \in j+1..Len(ev) :
                    ev[k].step = ev[j].step /\ ev[k].status \in {"completed", "failed"}})

\* C1: in every run the progress events come in the phase order extract, config,
\* service, verify: no event of a later phase precedes an event of an earlier one, and
\* a phase's in_progress event comes only after the preceding phase's completed event.
C1_PhaseOrder ==
    \A r \in Runs :
        LET ev == Events(r)
        IN  /\ \A i, j \in 1..Len(ev) :
                  i < j => PhaseIdx(ev[i].step) <= PhaseIdx(ev[j].step)
            /\ \A j \in 1..Len(ev) :
                  (ev[j].status = "in_progress" /\ PhaseIdx(ev[j].step) > 1)
                  => \E i \in 1..(j-1) :
                        /\ ev[i].step = Phases[PhaseIdx(ev[j].step) - 1]
                        /\ ev[i].status = "completed"

C1_Witness ==
    \E r \in Runs :
        /\ Failed(r) /\ failedPhase[r] = "service"
        /\ \E i \in 1..Len(log[r]) : log[r][i] = Ev("service", "in_progress",
                                                    "Configuring auto-start...")

\* C2 as stated: in a finished run every in_progress event precedes exactly one
\* terminal event (completed or failed) of its step.
C2_ExactlyOneTerminal ==
    \A r \in Runs :
        Finished(r) =>
            LET ev == Events(r)
            IN  \A j \in 1..Len(ev) :
                    ev[j].status = "in_progress" => TerminalsAfter(ev, j) = 1

\* C2 amended: every in_progress event precedes at most one terminal event of its
\* step; in a finished run it precedes exactly one (a completed event) unless the run
\* returned its error in that step, and then it precedes none.  A terminal event is
\* always preceded by an in_progress event of its step.
C2_AtMostOneTerminal ==
    \A r \in Runs :
        LET ev == Events(r)
        IN  /\ \A j \in 1..Len(ev) :
                  ev[j].status = "in_progress" =>
                      /\ TerminalsAfter(ev, j) <= 1
                      /\ Finished(r) =>
                            TerminalsAfter(ev, j) =
                                (IF failedPhase[r] = ev[j].step THEN 0 ELSE 1)
            /\ \A k \in 1..Len(ev) :
                  ev[k].status # "in_progress" =>
                      /\ ev[k].status = "completed"
                      /\ \E j \in 1..(k-1) :
                            ev[j].step = ev[k].step /\ ev[j].status = "in_progress"

C2_Witness ==
    \E r \in Runs :
        /\ Failed(r) /\ failedPhase[r] = "config"
        /\ \E j \in 1..Len(Events(r)) :
              /\ Events(r)[j].step = "config" /\ Events(r)[j].status = "in_progress"
              /\ TerminalsAfter(Events(r), j) = 0
        /\ \E j \in 1..Len(Events(r)) :
              /\ Events(r)[j].step = "extract" /\ Events(r)[j].status = "in_progress"
              /\ TerminalsAfter(Events(r), j) = 1

\* C3: when a phase fails the run returns an error, no event with status failed is
\* ever emitted, and no completed event is emitted for the failing phase.
C3_FailureIsErrorWithoutEvent ==
    \A r \in Runs :
        /\ \A i \in 1..Len(log[r]) : log[r][i].status # "failed"
        /\ failedPhase[r] # "none" =>
              /\ Failed(r)
              /\ result[r].err \notin {"", "pending"}
              /\ \A i \in 1..Len(log[r]) :
                    ~(log[r][i].step = failedPhase[r] /\ log[r][i].status = "completed")
        /\ Failed(r) => failedPhase[r] # "none"

C3_Witness ==
    \E r \in Runs :
        /\ Failed(r) /\ failedPhase[r] = "config"
        /\ result[r].err = "Failed to write baseDeltas.json"

\* C4: once a phase has failed no later phase runs: the run has returned, and it has
\* emitted no event and written no file or directory of a later phase.
C4_FailFast ==
    \A r \in Runs :
        failedPhase[r] # "none" =>
            /\ Finished(r)
            /\ \A i \in 1..Len(log[r]) :
                  PhaseIdx(log[r][i].step) <= PhaseIdx(failedPhase[r])
            /\ failedPhase[r] = "extract" =>
                  /\ fs.settings = fsAtStart[r].settings
                  /\ fs.baseDeltas = fsAtStart[r].baseDeltas
                  /\ fs.package = fsAtStart[r].package
                  /\ fs.npmrc = fsAtStart[r].npmrc
            /\ failedPhase[r] \in {"extract", "config"} =>
                  /\ fs.serviceDir = fsAtStart[r].serviceDir
                  /\ fs.descriptor = fsAtStart[r].descriptor

C4_Witness ==
    \E r \in Runs :
        /\ Failed(r) /\ failedPhase[r] = "extract"
        /\ result[r].err = "Failed to copy SignalK Server"
        /\ Len(Writes(r)) >= 3

\* what the phases before `phase` have put on disk
KeptBefore(phase, f) ==
    (IF phase # "extract" THEN <<f.configDir, f.installDir, f.node, f.server>> ELSE <<>>)
    \o (IF phase \in {"service", "verify"}
           THEN <<f.settings, f.baseDeltas, f.package, f.npmrc>> ELSE <<>>)
    \o (IF phase = "verify" THEN <<f.serviceDir, f.descriptor>> ELSE <<>>)

NodeInstalled ==
    File(IF IsUnix THEN [BundledNode EXCEPT !.mode = Mode755] ELSE BundledNode)

\* C5: no rollback.  The step in which a phase fails leaves every directory and file
\* of the phases completed before it as it was, and after a failure of the service
\* phase the config directory, the install directory, the copied runtime and server
\* tree, settings.json, baseDeltas.json, package.json and .npmrc are all on disk.
C5_NoRollback ==
    /\ [][\A r \in Runs :
            (failedPhase[r] = "none" /\ failedPhase'[r] # "none")
            => KeptBefore(failedPhase'[r], fs') = KeptBefore(failedPhase'[r], fs)]_vars
    /\ [](\A r \in Runs :
            failedPhase[r] = "service" =>
                /\ fs.configDir /\ fs.installDir
                /\ resources.node => fs.node = NodeInstalled
                /\ resources.server => /\ fs.server.dirs = BundledServer.dirs
                                       /\ fs.server.files = BundledServer.files
                /\ fs.settings = File(SettingsDoc(config[r]))
                /\ fs.baseDeltas = File(BaseDeltasDoc(config[r], vessel_uuid[r]))
                /\ Exists(fs.package) /\ Exists(fs.npmrc))

C5_Witness ==
    \E r \in Runs :
        /\ Failed(r) /\ failedPhase[r] = "service"
        /\ result[r].err \in {"Failed to create systemd directory",
                              "Failed to write systemd service"}
        /\ started = 1
        /\ fs.settings = File(SettingsDoc(config[r]))
        /\ fs.node = NodeInstalled
        /\ fs.server.files = BundledServer.files

\* C6: a run never overwrites a package.json or .npmrc that existed when it started
\* (a manifest older than the first run included), and a run that returns success
\* leaves settings.json and baseDeltas.json holding the values of its own config.
C6_KeepsManifestOverwritesSettings ==
    \A r \in Runs :
        /\ pc[r] # "idle" =>
              /\ Exists(fsAtStart[r].package) => fs.package = fsAtStart[r].package
              /\ Exists(fsAtStart[r].npmrc) => fs.npmrc = fsAtStart[r].npmrc
        /\ Succeeded(r) =>
              /\ fs.settings = File(SettingsDoc(config[r]))
              /\ fs.baseDeltas = File(BaseDeltasDoc(config[r], vessel_uuid[r]))

C6_Witness ==
    \E r \in Runs :
        /\ started = 2 /\ Succeeded(r)
        /\ fs.package = File(PriorPackageDoc)
        /\ fsAtStart[r].npmrc = File(NpmrcDoc)
        /\ Exists(fsAtStart[r].settings) /\ fsAtStart[r].settings # fs.settings
        /\ Exists(fsAtStart[r].baseDeltas) /\ fsAtStart[r].baseDeltas # fs.baseDeltas

HasWrite(r, target, before) ==
    \E i \in 1..(before - 1) : log[r][i] = Wr("service", target)

\* the service phase of run r, given whether setup_service writes a descriptor
ServicePhaseShape(r, writes) ==
    /\ ~writes => \A i \in 1..Len(log[r]) :
                      ~(log[r][i].kind = "write" /\ log[r][i].step = "service")
    /\ \A j \in 1..Len(log[r]) :
          log[r][j] = Ev("service", "completed", NoMessage) =>
              /\ \E i \in 1..(j-1) : /\ log[r][i].step = "service"
                                     /\ log[r][i].status = "in_progress"
              /\ j < Len(log[r]) /\ log[r][j+1].step = "verify"
                                 /\ log[r][j+1].status = "in_progress"
              /\ writes => /\ HasWrite(r, "descriptor", j)
                           /\ Exists(fs.descriptor)
    /\ \A j \in 1..Len(log[r]) :
          (log[r][j].step = "service" /\ log[r][j].status = "completed")
          => log[r][j].message = NoMessage
    /\ (~writes /\ pc[r] = "verify") =>
          log[r][Len(log[r])] = Ev("service", "in_progress", "Configuring auto-start...")

\* C7 as stated: without enable_auto_start the service phase writes nothing and still
\* emits in_progress then completed (no message) before verify; with enable_auto_start
\* the descriptor is written before the service completed event.
C7_DescriptorIffAutoStart ==
    \A r \in Runs :
        pc[r] # "idle" => ServicePhaseShape(r, config[r].enable_auto_start)

\* C7 amended: as C7, where the descriptor is written exactly when enable_auto_start is
\* set and the build targets linux, macos or windows; on any other target the service
\* phase writes nothing even with enable_auto_start, and still completes.
C7_DescriptorIffAutoStartAndRegime ==
    \A r \in Runs :
        pc[r] # "idle" => ServicePhaseShape(r, config[r].enable_auto_start /\ HasRegime)

C7_Witness ==
    \E r \in Runs :
        /\ Succeeded(r) /\ config[r].enable_auto_start /\ platform = "macos"
        /\ fsAtStart[r].descriptor = Absent
        /\ fs.descriptor = File(create_launchd_plist(get_config_dir, ServiceNodePath,
                                                     ServiceServerPath))

NodeErrors ==
    {"Failed to copy Node.js", "Failed to get node permissions",
     "Failed to set node permissions"}

ServerErrors == {"Failed to copy SignalK Server"}

\* C8: a bundled runtime or server tree that is absent is skipped without error: the
\* run writes nothing for it, never returns that copy's error, emits extract completed
\* and goes on through config, service and verify; it succeeds unless some other
\* fallible call fails.
C8_AbsentBundleSkipped ==
    \A r \in Runs :
        /\ (~resources.node /\ pc[r] # "idle") =>
              /\ result[r].err \notin NodeErrors
              /\ fs.node = fsAtStart[r].node
        /\ (~resources.server /\ pc[r] # "idle") =>
              /\ result[r].err \notin ServerErrors
              /\ fs.server = fsAtStart[r].server
        /\ ((~resources.node \/ ~resources.server) /\ pc[r] = "write_base_deltas") =>
              \E i \in 1..Len(log[r]) : log[r][i] = Ev("extract", "completed", NoMessage)
        /\ ((~resources.node \/ ~resources.server) /\ Succeeded(r)) =>
              \A p \in {"extract", "config", "service", "verify"} :
                  \E i \in 1..Len(log[r]) : log[r][i] = Ev(p, "completed", NoMessage)

C8_Witness ==
    \E r \in Runs :
        /\ ~resources.node /\ ~resources.server
        /\ started = 1 /\ Succeeded(r)
        /\ fs.node = Absent /\ fs.server = NoTree

(***************************************************************************)
(* Properties of the update manager (checked under SpecUpd)                *)
(***************************************************************************)

\* C9: check_for_updates never returns an error value: every finished call yields an
\* UpdateInfo, and a failed check yields update_available = false with a non-empty
\* diagnostic in release_notes.
C9_CheckNeverErr ==
    upd.cfu = "done" =>
        /\ upd.cfuResult.ok
        /\ upd.cfuCheck \in {"err", "-"} =>
              /\ ~upd.cfuResult.info.update_available
              /\ upd.cfuResult.info.release_notes # None
              /\ NonEmpty(upd.cfuResult.info.release_notes[1])

\* C10: install_update returns an error whenever its own check reports no update or
\* fails; download_and_install is started only after the check returned an update, and
\* install_update returns success only after download_and_install succeeded.
C10_InstallNeedsUpdate ==
    /\ (upd.iu = "done" /\ upd.iuCheck \in {"none", "err", "-"}) =>
          /\ ~upd.iuResult.ok
          /\ NonEmpty(upd.iuResult.err)
          /\ upd.iuDownload = "not_started"
          /\ upd.downloaded = 0
    /\ upd.iuDownload # "not_started" => upd.iuCheck = "some"
    /\ upd.downloaded > 0 => upd.iuCheck = "some"
    /\ (upd.iu = "done" /\ upd.iuResult.ok) => upd.iuDownload = "installed"

C10_Witness ==
    /\ upd.iu = "done" /\ upd.iuCheck = "none"
    /\ upd.iuResult = ErrUnit(<<"No update available">>)

\* C11: every UpdateInfo that check_for_updates returns fits the outcome of the check:
\* update_available holds exactly when latest_version and download_url are present
\* (the check found an update); with no update the three optional fields are absent;
\* after a failed check update_available is false, latest_version and download_url are
\* absent and release_notes carries the diagnostic; current_version is always present.
C11_UpdateInfoConsistent ==
    (upd.cfu = "done" /\ upd.cfuResult.ok) =>
        LET i == upd.cfuResult.info
        IN  /\ i.update_available <=> (i.latest_version # None /\ i.download_url # None)
            /\ i.update_available <=> upd.cfuCheck = "some"
            /\ (i.latest_version # None) <=> (i.download_url # None)
            /\ upd.cfuCheck = "none" =>
                  /\ i.latest_version = None
                  /\ i.release_notes = None
                  /\ i.download_url = None
            /\ upd.cfuCheck = "err" =>
                  /\ ~i.update_available
                  /\ i.latest_version = None /\ i.download_url = None
                  /\ i.release_notes # None
                  /\ i.release_notes[1][1] = "Update check failed: "
                  /\ NonEmpty(i.release_notes[1])
            /\ i.current_version = CurrentVersion /\ i.current_version # ""

C11_Witness ==
    /\ upd.cfu = "done" /\ upd.cfuResult.ok /\ upd.cfuCheck = "err"
    /\ upd.cfuResult.info.release_notes =
          Some(Format("Update check failed: ", "network unreachable"))

(***************************************************************************)
(* check_existing_install over the states of the config directory          *)
(***************************************************************************)
\* the tauri command check_existing_install
CheckExistingInstall ==
    /\ det.state = "idle"
    /\ det' = [det EXCEPT !.state = "done",
                          !.result = check_existing_install(det.settings, det.package,
                                                            det.readable)]
    /\ UNCHANGED <<platform, homeKnown, resources, fs, pc, config, log, vessel_uuid,
                   pathAbsent, result, failedPhase, fsAtStart, started, uuidCount,
                   observer, delivered, cp, okRuns, overlap, upd>>

NextDetect == CheckExistingInstall

InitDetect ==
    /\ platform \in Platforms
    /\ homeKnown \in BOOLEAN
    /\ resources = [node |-> TRUE, server |-> TRUE]
    /\ fs = CHOOSE f \in InitFs : ~f.configDir
    /\ pc = [r \in Runs |-> "idle"]
    /\ config = [r \in Runs |-> NoConfig]
    /\ log = [r \in Runs |-> <<>>]
    /\ vessel_uuid = [r \in Runs |-> <<>>]
    /\ pathAbsent = [r \in Runs |-> FALSE]
    /\ result = [r \in Runs |-> NoResult]
    /\ failedPhase = [r \in Runs |-> "none"]
    /\ fsAtStart = [r \in Runs |-> fs]
    /\ started = 0
    /\ uuidCount = 0
    /\ okRuns = 0
    /\ overlap = FALSE
    /\ cp = NoCopy
    /\ delivered = [r \in Runs |-> <<>>]
    /\ observer = "listening"
    /\ upd = InitUpd
    /\ \E s \in {Absent, File(<<>>), File(<<LBrace, RBrace>>)},
          p \in {Absent} \cup {File(t) : t \in PackageTexts},
          readable \in BOOLEAN :
            det = [settings |-> s, package |-> p, readable |-> readable,
                   state |-> "idle", result |-> NoExistingInstall]

SpecDetect == InitDetect /\ [][NextDetect]_vars

\* the texts of PackageTexts that are a JSON object whose version member is a string
StringVersionTexts ==
    {InstallerPackageText, PriorPackageText,
     ObjectText(<<Member("version", JStr(""))>>),
     ObjectText(<<Member("version", JNum("2")), Member("version", JStr("2.0.0"))>>)}

\* C12: check_existing_install always returns an ExistingInstall; found holds exactly
\* when settings.json exists; config_path is present exactly when found holds; version
\* is present exactly when found holds and package.json was read, parsed as JSON and
\* holds a string version member, and is absent after any read or parse failure.
C12_DetectionContract ==
    det.state = "done" =>
        LET x == det.result
        IN  /\ x.found \in BOOLEAN
            /\ x.found <=> Exists(det.settings)
            /\ (x.config_path # None) <=> x.found
            /\ x.found => x.config_path = Some(get_config_dir)
            /\ (x.version # None) <=>
                  /\ x.found
                  /\ det.readable
                  /\ Exists(det.package)
                  /\ det.package[1] \in StringVersionTexts
            /\ (x.version # None /\ det.package[1] = PriorPackageText) =>
                  x.version = Some("1.4.0")
            /\ (x.version # None /\ det.package[1] = InstallerPackageText) =>
                  x.version = Some("0.0.1")

\* an installation is found although its package.json is cut short: no version, no error
C12_Witness ==
    /\ det.state = "done"
    /\ det.result.found
    /\ det.readable
    /\ det.package = File(SubSeq(PriorPackageText, 1, 7))
    /\ det.result.version = None
    /\ det.result.config_path = Some(<<".signalk">>)

\* a file that holds a whole document
Intact(file) == Exists(file) /\ file # Partial

\* the vessel identifier inside a baseDeltas.json
VesselIdOf(file) == file[1][1].updates[1].values[1].value.uuid

\* C13: the vessel identifier the config phase writes to baseDeltas.json comes from the
\* mmsi: urn:mrn:imo:mmsi:m for a non-empty mmsi m; for an empty mmsi the prefix
\* urn:mrn:signalk:uuid: followed by a uuid generated in this run, different from the
\* identifier an earlier run left in the file.
C13_VesselIdFromMmsi ==
    [][\A r \in Runs :
          (pc[r] = "write_base_deltas" /\ pc'[r] = "check_package") =>
              /\ Intact(fs'.baseDeltas)
              /\ LET id == VesselIdOf(fs'.baseDeltas)
                     m == config[r].mmsi
                 IN  /\ Len(id) = 2
                     /\ m # "" => (id[1] = "urn:mrn:imo:mmsi:" /\ id[2] = m)
                     /\ m = "" =>
                           /\ id[1] = "urn:mrn:signalk:uuid:"
                           /\ id[2] \in {Uuid(n) : n \in 1..MaxRuns}
                           /\ id[2] = Uuid(uuidCount)
                           /\ (Intact(fs.baseDeltas)
                                 /\ VesselIdOf(fs.baseDeltas)[1] = "urn:mrn:signalk:uuid:") =>
                                    VesselIdOf(fs.baseDeltas)[2] # id[2]]_vars

\* a second run without mmsi has replaced the first run's identifier by a new one
C13_Witness ==
    /\ started = 2
    /\ pc[FirstRun] = "check_package"
    /\ config[FirstRun].mmsi = ""
    /\ Intact(fs.baseDeltas)
    /\ VesselIdOf(fs.baseDeltas) = <<"urn:mrn:signalk:uuid:", Uuid(2)>>
    /\ Intact(fsAtStart[FirstRun].baseDeltas)
    /\ VesselIdOf(fsAtStart[FirstRun].baseDeltas) = <<"urn:mrn:signalk:uuid:", Uuid(1)>>

\* C14: where get_info reports the service manager "none", a run with enable_auto_start
\* that has entered the service phase writes no descriptor file, does not fail in the
\* service phase, and goes on to verify.
C14_NoRegimeSkipsRegistration ==
    \A r \in Runs :
        (/\ get_info.service_manager = "none"
         /\ config[r] # NoConfig
         /\ config[r].enable_auto_start
         /\ \E i \in 1..Len(log[r]) :
               log[r][i] = Ev("service", "in_progress", "Configuring auto-start...")) =>
            /\ \A i \in 1..Len(log[r]) : ~(log[r][i].kind = "write" /\ log[r][i].step = "service")
            /\ fs.descriptor = Absent /\ ~fs.serviceDir
            /\ failedPhase[r] # "service"
            /\ pc[r] \in {"verify", "done"}
            /\ Finished(r) =>
                  \E i \in 1..Len(log[r]) :
                     log[r][i] = Ev("verify", "in_progress", "Verifying installation...")

C14_Witness ==
    /\ get_info.service_manager = "none"
    /\ config[FirstRun] # NoConfig
    /\ config[FirstRun].enable_auto_start
    /\ Succeeded(FirstRun)
    /\ fs.descriptor = Absent

(***************************************************************************)
(* run_installation beside its environment: the front end may stop         *)
(* listening, and another process may remove settings.json                 *)
(***************************************************************************)
EnvFrame ==
    UNCHANGED <<platform, homeKnown, resources, pc, config, log, vessel_uuid, pathAbsent,
                result, failedPhase, fsAtStart, started, uuidCount, det, delivered, cp,
                okRuns, overlap, upd>>

\* the window that listens to "install-progress" closes while a run is going on
ObserverLeaves ==
    /\ \E r \in Runs : pc[r] \notin {"idle", "done"}
    /\ observer = "listening"
    /\ observer' = "gone"
    /\ fs' = fs
    /\ EnvFrame

\* another process deletes settings.json while a run is going on
ExternalRemoveSettings ==
    /\ \E r \in Runs : pc[r] \notin {"idle", "done"}
    /\ Exists(fs.settings)
    /\ fs' = [fs EXCEPT !.settings = Absent]
    /\ observer' = observer
    /\ EnvFrame

NextEnv == Next \/ ObserverLeaves \/ ExternalRemoveSettings

InitEnv ==
    /\ Init
    /\ platform = "linux"
    /\ homeKnown
    /\ resources = [node |-> TRUE, server |-> TRUE]
    /\ ~fs.configDir

SpecEnv == InitEnv /\ [][NextEnv]_vars

\* the completed events of run r, in the order of their emission
Completed(r) == SelectSeq(Events(r), LAMBDA x : x.status = "completed")

\* C15: a run has returned success only if extract, config, service and verify have
\* emitted completed, in this order, and settings.json was on disk at the moment verify
\* looked for it; if the file is missing at that moment the run returns an error and
\* emits no verify completed event.
C15_SuccessOnlyWhenVerified ==
    /\ [](\A r \in Runs :
             Succeeded(r) =>
                 Completed(r) = [i \in 1..4 |-> Ev(Phases[i], "completed", NoMessage)])
    /\ [][\A r \in Runs :
             (pc[r] = "verify" /\ pc'[r] = "done") =>
                 /\ result'[r].ok <=> Exists(fs.settings)
                 /\ ~Exists(fs.settings) =>
                       /\ result'[r] =
                             Err("Installation verification failed: settings.json not found")
                       /\ failedPhase'[r] = "verify"
                       /\ \A i \in 1..Len(log'[r]) :
                             log'[r][i] # Ev("verify", "completed", NoMessage)
                       /\ Completed(r)' = [i \in 1..3 |-> Ev(Phases[i], "completed", NoMessage)]]_vars

\* settings.json was written by the config phase, removed afterwards, and verify failed
C15_Witness ==
    /\ Failed(FirstRun)
    /\ failedPhase[FirstRun] = "verify"
    /\ ~Exists(fs.settings)
    /\ \E i \in 1..Len(log[FirstRun]) : log[FirstRun][i] = Wr("config", "settings")
    /\ result[FirstRun] = Err("Installation verification failed: settings.json not found")

\* the places where run_installation and setup_service return an error: phase and text
FailurePoints ==
    {<<"extract", m>> : m \in {"Failed to create config directory",
                               "Failed to create install directory",
                               "Failed to get resource directory"}
                                 \cup NodeErrors \cup ServerErrors}
      \cup {<<"config", m>> : m \in {"Failed to write settings.json",
                                     "Failed to write baseDeltas.json",
                                     "Failed to write package.json",
                                     "Failed to write .npmrc"}}
      \cup {<<"service", m>> : m \in {"Could not determine systemd user directory",
                                      "Failed to create systemd directory",
                                      "Failed to write systemd service",
                                      "Could not determine LaunchAgents directory",
                                      "Failed to create LaunchAgents directory",
                                      "Failed to write launchd plist",
                                      "Failed to write task XML"}}
      \cup {<<"verify", "Installation verification failed: settings.json not found">>}

\* C16: progress events are fire-and-forget.  Whatever part of the events reaches the
\* front end, a run fails only at one of the fallible calls of the installation itself,
\* with that call's error, and a run that succeeds has emitted the four completed events
\* and left the documents of its config on disk, as the run whose events all arrive.
\* No step of a run looks at the front end, and the front end going away changes
\* nothing of the run.
C16_EmitIsFireAndForget ==
    /\ [](\A r \in Runs :
             /\ Len(delivered[r]) <= Len(Events(r))
             /\ Failed(r) => <<failedPhase[r], result[r].err>> \in FailurePoints
             /\ Succeeded(r) =>
                   /\ Completed(r) = [i \in 1..4 |-> Ev(Phases[i], "completed", NoMessage)]
                   /\ fs.settings = File(SettingsDoc(config[r]))
                   /\ fs.baseDeltas = File(BaseDeltasDoc(config[r], vessel_uuid[r]))
                   /\ Exists(fs.package) /\ Exists(fs.npmrc))
    /\ [][/\ (observer = "listening" /\ observer' = "gone") =>
                UNCHANGED <<fs, pc, log, result, failedPhase>>
          /\ \A r \in Runs :
                (observer = "gone" /\ log'[r] # log[r] /\ pc[r] \notin {"idle", "done"}) =>
                    /\ delivered'[r] = delivered[r]
                    /\ failedPhase'[r] # "none" =>
                          <<failedPhase'[r], result'[r].err>> \in FailurePoints]_vars

\* a run has succeeded although none of its events reached the front end
C16_Witness ==
    /\ Succeeded(FirstRun)
    /\ observer = "gone"
    /\ delivered[FirstRun] = <<>>
    /\ Len(Events(FirstRun)) > 0
    /\ fs.settings = File(SettingsDoc(config[FirstRun]))

\* C17: when run_installation has returned an error, the last progress event it emitted
\* is an in_progress event of the phase in which the failing call was made.
C17_LastEventNamesFailedPhase ==
    \A r \in Runs :
        Failed(r) =>
            LET ev == Events(r)
            IN  /\ Len(ev) > 0
                /\ ev[Len(ev)].status = "in_progress"
                /\ ev[Len(ev)].step = failedPhase[r]
                /\ ev[Len(ev)].message # NoMessage

\* the very first call failed: the only event is extract in_progress
C17_Witness ==
    /\ Failed(FirstRun)
    /\ result[FirstRun] = Err("Failed to create config directory")
    /\ Events(FirstRun) = <<Ev("extract", "in_progress", "Preparing installation directory...")>>

\* number of events of run r with this step and status
CountEvents(r, step, status) ==
    Cardinality({i \in 1..Len(Events(r)) :
                    Events(r)[i].step = step /\ Events(r)[i].status = status})

\* C18 as stated: a successful run emits, for each of the four phases, exactly one
\* in_progress event with a message and then exactly one completed event without one:
\* eight events in all.
C18_ExactlyEightEvents ==
    \A r \in Runs :
        Succeeded(r) =>
            /\ Len(Events(r)) = 8
            /\ \A i \in 1..4 :
                  /\ CountEvents(r, Phases[i], "in_progress") = 1
                  /\ CountEvents(r, Phases[i], "completed") = 1

\* C18, amended: a successful run emits exactly nine events.  Extract emits in_progress
\* twice, at entry and again after the two directories are created, with two different
\* messages; config, service and verify emit in_progress once, at entry; every phase
\* emits one completed event without message at exit, and nothing else is emitted.
C18_NineEvents ==
    \A r \in Runs :
        Succeeded(r) =>
            Events(r) =
                <<Ev("extract", "in_progress", "Preparing installation directory..."),
                  Ev("extract", "in_progress", "Extracting Node.js and SignalK Server..."),
                  Ev("extract", "completed", NoMessage),
                  Ev("config", "in_progress", "Writing configuration files..."),
                  Ev("config", "completed", NoMessage),
                  Ev("service", "in_progress", "Configuring auto-start..."),
                  Ev("service", "completed", NoMessage),
                  Ev("verify", "in_progress", "Verifying installation..."),
                  Ev("verify", "completed", NoMessage)>>

C18_Witness ==
    /\ Succeeded(FirstRun)
    /\ Len(Events(FirstRun)) = 9
    /\ CountEvents(FirstRun, "extract", "in_progress") = 2

\* the documents of the config phase in the order run_installation writes them
ConfigOrder == <<"settings", "baseDeltas", "package", "npmrc">>

ConfigIdx(t) == CHOOSE i \in 1..4 : ConfigOrder[i] = t

ConfigWrites(r) == SelectSeq(log[r], LAMBDA x : x.kind = "write" /\ x.step = "config")

\* the document whose write returned this error
FailedDoc(err) ==
    CASE err = "Failed to write settings.json"   -> 1
      [] err = "Failed to write baseDeltas.json" -> 2
      [] err = "Failed to write package.json"    -> 3
      [] OTHER                                   -> 4

\* C19: the config phase writes settings.json, baseDeltas.json, package.json (if absent)
\* and .npmrc (if absent) in this order; the first write that fails ends the phase: no
\* later document is written or changed, config completed is not emitted, and the
\* documents written before the failure are on disk as written.
C19_ConfigWritesInOrderAbortOnFirstFailure ==
    \A r \in Runs :
        LET w == ConfigWrites(r)
        IN  /\ \A i, j \in 1..Len(w) :
                  i < j => ConfigIdx(w[i].target) < ConfigIdx(w[j].target)
            /\ (\E i \in 1..Len(log[r]) : log[r][i] = Ev("config", "completed", NoMessage)) =>
                  w = SelectSeq([i \in 1..4 |-> Wr("config", ConfigOrder[i])],
                                LAMBDA x : \/ x.target \in {"settings", "baseDeltas"}
                                           \/ ~Exists(fsAtStart[r][x.target]))
            /\ failedPhase[r] = "config" =>
                  LET k == FailedDoc(result[r].err)
                  IN  /\ Failed(r)
                      /\ \A i \in 1..Len(w) : ConfigIdx(w[i].target) <= k
                      /\ \A j \in (k + 1)..4 :
                            fs[ConfigOrder[j]] = fsAtStart[r][ConfigOrder[j]]
                      /\ \A i \in 1..Len(log[r]) :
                            log[r][i] # Ev("config", "completed", NoMessage)
                      /\ k > 1 => fs.settings = File(SettingsDoc(config[r]))
                      /\ k > 2 => fs.baseDeltas = File(BaseDeltasDoc(config[r], vessel_uuid[r]))
                      /\ k > 3 => fs.package = IF Exists(fsAtStart[r].package)
                                                  THEN fsAtStart[r].package
                                                  ELSE File(PackageDoc)

\* the write of package.json failed: the two documents before it are on disk, .npmrc
\* was never written
C19_Witness ==
    /\ Failed(FirstRun)
    /\ result[FirstRun] = Err("Failed to write package.json")
    /\ fs.settings = File(SettingsDoc(config[FirstRun]))
    /\ fs.baseDeltas = File(BaseDeltasDoc(config[FirstRun], vessel_uuid[FirstRun]))
    /\ fs.package = Partial
    /\ fs.npmrc = Absent

(***************************************************************************)
(* copy_dir_recursive over source trees, destinations and failure points   *)
(***************************************************************************)
\* one call copy_dir_recursive(src, dst); the fuel says which fallible call fails, if any
CopyDirRecursive ==
    /\ cp.state = "idle"
    /\ \E fuel \in 0..MaxTreeFuel :
          cp' = [cp EXCEPT !.state = "done", !.fuel = fuel,
                           !.out = copy_dir_recursive(cp.src, <<>>, CopyState(cp.dst, fuel))]
    /\ UNCHANGED <<platform, homeKnown, resources, fs, pc, config, log, vessel_uuid,
                   pathAbsent, result, failedPhase, fsAtStart, started, uuidCount,
                   det, observer, delivered, okRuns, overlap, upd>>

NextCopy == CopyDirRecursive

InitCopy ==
    /\ platform = "linux"
    /\ homeKnown = TRUE
    /\ resources = [node |-> TRUE, server |-> TRUE]
    /\ fs = CHOOSE f \in InitFs : ~f.configDir
    /\ pc = [r \in Runs |-> "idle"]
    /\ config = [r \in Runs |-> NoConfig]
    /\ log = [r \in Runs |-> <<>>]
    /\ vessel_uuid = [r \in Runs |-> <<>>]
    /\ pathAbsent = [r \in Runs |-> FALSE]
    /\ result = [r \in Runs |-> NoResult]
    /\ failedPhase = [r \in Runs |-> "none"]
    /\ fsAtStart = [r \in Runs |-> fs]
    /\ started = 0
    /\ uuidCount = 0
    /\ okRuns = 0
    /\ overlap = FALSE
    /\ det = DetIdle
    /\ observer = "listening"
    /\ delivered = [r \in Runs |-> <<>>]
    /\ upd = InitUpd
    /\ \E s \in SourceTrees, d \in DestTrees :
          cp = [src |-> s, dst |-> d, fuel |-> 0, state |-> "idle", out |-> CopyState(d, 0)]

SpecCopy == InitCopy /\ [][NextCopy]_vars

\* the copy of the same source to the same destination when no call fails
Unfailing == copy_dir_recursive(cp.src, <<>>, CopyState(cp.dst, MaxTreeFuel))

IsPrefix(s, t) == Len(s) <= Len(t) /\ s = SubSeq(t, 1, Len(s))

\* C20: copy_dir_recursive ends for every source tree.  When no call fails, every
\* directory and file of the source is at the destination, files with the content of
\* the source, and what the destination held beside them is untouched: a destination
\* that was absent is then the very tree of the source.  A file is copied only after
\* its directory exists at the destination.  The first call that fails ends the copy:
\* the error is returned and nothing is created or copied after it.
C20_CopyReproducesTree ==
    cp.state = "done" =>
        LET out == cp.out
            src == cp.src
            dst == cp.dst
        IN  /\ Unfailing.ok
            /\ out.ok =>
                  /\ out.tree.dirs = dst.dirs \cup src.dirs
                  /\ DOMAIN out.tree.files = DOMAIN dst.files \cup DOMAIN src.files
                  /\ \A p \in DOMAIN src.files : out.tree.files[p] = src.files[p]
                  /\ \A p \in DOMAIN dst.files \ DOMAIN src.files :
                        out.tree.files[p] = dst.files[p]
                  /\ dst = NoTree => out.tree = src
                  /\ out.ops = Unfailing.ops
            /\ \A j \in 1..Len(out.ops) :
                  out.ops[j][1] = "copy" =>
                      \/ Parent(out.ops[j][2]) \in dst.dirs
                      \/ \E i \in 1..(j - 1) : out.ops[i] = <<"mkdir", Parent(out.ops[j][2])>>
            /\ ~out.ok =>
                  /\ out.fuel = 0
                  /\ IsPrefix(out.ops, Unfailing.ops)
                  /\ out.tree.dirs \subseteq Unfailing.tree.dirs
                  /\ DOMAIN out.tree.files \subseteq DOMAIN Unfailing.tree.files
                  /\ Cardinality(out.tree.dirs \ dst.dirs)
                       + Cardinality({p \in DOMAIN out.tree.files :
                                         p \notin DOMAIN dst.files
                                           \/ out.tree.files[p] # dst.files[p]})
                       <= cp.fuel

\* the deepest source tree was copied to an absent destination
C20_Witness ==
    /\ cp.state = "done"
    /\ cp.out.ok
    /\ cp.dst = NoTree
    /\ cp.src.dirs = {<<>>, <<"a">>, <<"a", "b">>, <<"e">>}
    /\ DOMAIN cp.src.files = TreeFiles
    /\ cp.out.tree = cp.src
    /\ cp.out.tree.files[<<"a", "b", "f">>] = "y"

\* C21: in every service regime the descriptor that setup_service has written names, as
\* the runtime executable, the path to which the extract phase copies the bundled
\* runtime, and, as the server, a file of the signalk-server tree that extract copies.
C21_DescriptorPathsMatchExtract ==
    Intact(fs.descriptor) =>
        LET exec == fs.descriptor[1].exec
        IN  /\ exec[1] = TargetNodePath
            /\ IsPrefix(TargetServerPath, exec[2])
            /\ SubSeq(exec[2], Len(TargetServerPath) + 1, Len(exec[2]))
                  \in DOMAIN BundledServer.files

(***************************************************************************)
(* check_existing_install applied to the files run_installation leaves     *)
(***************************************************************************)
\* serde_json::to_string_pretty of a manifest
to_string_pretty(doc) ==
    PackageText(JStr(doc.version), IF doc.dependencies = {} THEN "{}" ELSE "{a-plugin}")

\* the texts a file of the config directory may hold: the rendering of its document, or,
\* after a write that failed half way, a proper prefix of the manifest
TextsOnDisk(file) ==
    CASE file = Absent  -> {Absent}
      [] file = Partial -> {File(t) : t \in Prefixes(InstallerPackageText) \ {InstallerPackageText}}
      [] OTHER          -> {File(to_string_pretty(file[1]))}

\* the command check_existing_install, invoked at any moment on the installer's files
CheckExistingInstallOnDisk ==
    /\ \E readable \in BOOLEAN, package \in TextsOnDisk(fs.package) :
          LET settings == IF Exists(fs.settings) THEN File(<<LBrace, RBrace>>) ELSE Absent
          IN  det' = [settings |-> settings, package |-> package, readable |-> readable,
                      state |-> "done",
                      result |-> check_existing_install(settings, package, readable)]
    /\ UNCHANGED <<platform, homeKnown, resources, fs, pc, config, log, vessel_uuid,
                   pathAbsent, result, failedPhase, fsAtStart, started, uuidCount,
                   observer, delivered, cp, okRuns, overlap, upd>>

NextAgree == Next \/ CheckExistingInstallOnDisk

\* the config directory is empty when the first run starts; the builds are those whose
\* invocations are explored to MaxRunsElsewhere, with a complete bundle
InitAgree ==
    /\ Init
    /\ platform # "linux"
    /\ resources = [node |-> TRUE, server |-> TRUE]
    /\ ~fs.configDir

SpecAgree == InitAgree /\ [][NextAgree]_vars

\* C22 as stated: a check_existing_install that follows a run that returned success
\* reports found with the config directory and, when package.json did not exist before
\* that run, version 0.0.1; and it reports found only after some run returned success.
C22_FoundIffSomeRunSucceeded ==
    [][det' # det =>
          LET x == det'.result
          IN  /\ Succeeded(FirstRun) =>
                    /\ x.found
                    /\ x.config_path = Some(get_config_dir)
                    /\ ~Exists(fsAtStart[FirstRun].package) => x.version = Some("0.0.1")
              /\ x.found => okRuns > 0]_vars

\* run r has opened settings.json for writing
WroteSettings(r) == \E i \in 1..Len(Writes(r)) : Writes(r)[i].target = "settings"

\* C22 amended: a check_existing_install that follows a run that returned success reports
\* found with the config directory and, when package.json did not exist before that run
\* and can be read, version 0.0.1; starting from an empty config directory it reports
\* found exactly when settings.json is on disk, which is only after some run has written
\* settings.json, whether or not a run has returned success.
C22_FoundIffSettingsWritten ==
    [][det' # det =>
          LET x == det'.result
          IN  /\ Succeeded(FirstRun) =>
                    /\ x.found
                    /\ x.config_path = Some(get_config_dir)
                    /\ (~Exists(fsAtStart[FirstRun].package) /\ det'.readable)
                          => x.version = Some("0.0.1")
              /\ x.found <=> Exists(fs.settings)
              /\ x.found => started > 0
              /\ (x.found /\ started = 1) => WroteSettings(FirstRun)]_vars

\* detection after a first run that returned success on an empty config directory
C22_Witness ==
    /\ det.state = "done"
    /\ Succeeded(FirstRun) /\ started = 1 /\ okRuns = 1
    /\ det.result = ExistingInstall(TRUE, Some(get_config_dir), Some("0.0.1"))

(***************************************************************************)
(* Two invocations of run_installation in flight at once                   *)
(***************************************************************************)
\* the slot of the invocation that arrives second
SecondRun == "r2"

\* the command is async and takes no lock: an invocation may begin while the other slot's
\* invocation is anywhere in its body; the two requests carry different configs
StartConcurrent(r) ==
    /\ pc[r] = "idle"
    /\ r = FirstRun \/ pc[FirstRun] # "idle"
    /\ \E c \in Configs \ {config[q] : q \in Runs \ {r}} :
          config' = [config EXCEPT ![r] = c]
    /\ pc' = [pc EXCEPT ![r] = "create_config_dir"]
    /\ log' = [log EXCEPT ![r] = <<>>]
    /\ result' = [result EXCEPT ![r] = NoResult]
    /\ failedPhase' = [failedPhase EXCEPT ![r] = "none"]
    /\ vessel_uuid' = [vessel_uuid EXCEPT ![r] = <<>>]
    /\ pathAbsent' = [pathAbsent EXCEPT ![r] = FALSE]
    /\ fsAtStart' = [fsAtStart EXCEPT ![r] = fs]
    /\ started' = started + 1
    /\ delivered' = [delivered EXCEPT ![r] = <<>>]
    /\ overlap' = (overlap \/ \E q \in Runs \ {r} : pc[q] \notin {"idle", "done"})
    /\ UNCHANGED <<platform, homeKnown, resources, fs, uuidCount, okRuns, observer, cp, det,
                   upd>>

NextConc == \E r \in Runs : StartConcurrent(r) \/ RunStep(r)

InitConc ==
    /\ Init
    /\ platform = "macos"
    /\ homeKnown
    /\ resources = [node |-> TRUE, server |-> TRUE]
    /\ ~fs.configDir

SpecConc == InitConc /\ [][NextConc]_vars

\* settings.json and baseDeltas.json on disk are the documents run r writes
BothFrom(r) ==
    /\ fs.settings = File(SettingsDoc(config[r]))
    /\ fs.baseDeltas = File(BaseDeltasDoc(config[r], vessel_uuid[r]))

====
